---- MODULE Spec2Model ----
(***************************************************************************)
(* DairyOS billing core: bill generation (services/billing.py,             *)
(* services/billing_service.py, api/v1/endpoints/bills.py) and payment     *)
(* webhook reconciliation (api/v1/endpoints/payments.py), as concurrent    *)
(* workers over one PostgreSQL database (READ COMMITTED: every statement   *)
(* sees the rows committed before it) and one Redis lock store.            *)
(*                                                                         *)
(* Quantities are integers in thousandths of a litre (Numeric(12,3)),      *)
(* prices in thousandths of a rupee (Numeric(10,3)), amounts in hundredths *)
(* of a rupee (Numeric(12,2)).                                             *)
(***************************************************************************)
EXTENDS Integers, Sequences, FiniteSets, TLC

(* ------------------------------ bounds -------------------------------- *)
MaxEdits == 1          \* committed usage edits and unit-price changes
MaxRetries == 1        \* redeliveries of one event by the provider after an HTTP 500

(* ------------------------------ domains ------------------------------- *)
Workers == {"w1", "w2"}
Handlers == {"h1", "h2"}
NoBill == [id |-> 0]
NoToken == 0
None == "None"

\* the one customer and period the workers contend for
TheUser == "u1"
BillMonth == [year |-> 2024, mon |-> 2]

Quantities == {2500}
\* "liters" of a daily entry: 0 <= quantity <= 1000
EntryQuantities == {0, 2500}
Prices == {250, 350}
InitialPrice == 250
PayIds == {"pay_1", "pay_2"}
SigKinds == {"missing", "bad", "good"}
SuccessEvents == {"payment.captured", "order.paid"}
EventTypes == SuccessEvents \cup {"payment.failed", "other"}
TsKinds == {"absent", "fresh", "skewed"}
\* notes.bill_id of the event: 0 when absent, -1 when it is not a UUID, else a bill id
BillRefs == {-1, 0, 1}

(* --------------------------- calendar, money -------------------------- *)
IsLeap(y) == (y % 4 = 0 /\ y % 100 # 0) \/ y % 400 = 0

monthrange(y, m) ==
    IF m = 2 THEN (IF IsLeap(y) THEN 29 ELSE 28)
    ELSE IF m \in {4, 6, 9, 11} THEN 30 ELSE 31

MkDate(y, m, d) == [y |-> y, m |-> m, d |-> d]

calculate_month_range(month) ==
    << MkDate(month.year, month.mon, 1),
       MkDate(month.year, month.mon, monthrange(month.year, month.mon)) >>

DateLE(a, b) ==
    \/ a.y < b.y
    \/ a.y = b.y /\ a.m < b.m
    \/ a.y = b.y /\ a.m = b.m /\ a.d <= b.d

\* the period's first and last day and the day after it
UsageDates == { MkDate(2024, 2, 1), MkDate(2024, 2, 29), MkDate(2024, 3, 1) }

RECURSIVE SumOver(_, _)
SumOver(f, S) ==
    IF S = {} THEN 0
    ELSE LET x == CHOOSE x \in S : TRUE IN f[x] + SumOver(f, S \ {x})

\* ROUND_HALF_UP in place of ROUND_HALF_EVEN
QuantizeHalfUp(n, unit) ==
    IF 2 * (n % unit) >= unit THEN (n \div unit) + 1 ELSE n \div unit

\* Decimal.quantize(<unit>, ROUND_HALF_EVEN) of n, n >= 0, in multiples of unit
QuantizeHalfEven(n, unit) ==
    LET q == n \div unit
        r == n % unit
    IN  IF 2 * r > unit THEN q + 1
        ELSE IF 2 * r = unit THEN q + (q % 2)
        ELSE q

\* liters in 10^-3, price in 10^-3, product in 10^-6, result in 10^-2
calculate_bill_amount(total_liters, price_per_liter) ==
    QuantizeHalfEven(total_liters * price_per_liter, 10000)

\* money.calculate_amount: both operands quantized to LITER_PRECISION (they are
\* Numeric(_, 3) values, so already multiples of 0.001), the product to 0.01
calculate_amount(quantity, unit_price) ==
    LET qty == QuantizeHalfEven(quantity, 1)
        price_ == QuantizeHalfEven(unit_price, 1)
    IN  QuantizeHalfEven(qty * price_, 10000)

\* Money.__mul__(self, other): self.amount in 10^-2, other in 10^-3; the reply is
\* the exception raised, or the new Money's amount
Money__mul__(amount, other) ==
    IF other < 0 THEN [raised |-> "ValueError", value |-> 0]
    ELSE [raised |-> None, value |-> QuantizeHalfEven(amount * other, 1000)]

(* ------------------------------- state -------------------------------- *)
VARIABLES
    consumption,     \* Consumption.quantity by date, for TheUser (0: no row)
    price,           \* User.price_per_liter of TheUser
    usageEpoch,      \* number of committed usage edits (history)
    priceEpoch,      \* number of committed price changes (history)
    bills,           \* committed rows of table bills
    nextBillId,      \* ids handed out to bill rows
    payments,        \* committed rows of table payments, in insertion order
    webhook_events,  \* committed rows of table webhook_events
    rowLock,         \* holder of the FOR UPDATE lock on the bill row, or None
    redisLock,       \* value stored under bill:generate:{user}:{month}, or NoToken
    secret,          \* settings.RAZORPAY_WEBHOOK_SECRET is configured
    gen,             \* per worker: generate_bill_for_user's position and locals
    svc,             \* the ORM-upsert caller's position and locals
    wh,              \* per handler: payment_webhook's position and locals
    batch,           \* the batch generation run over all users: position and locals
    locks,           \* the lock keys of other callers and what each caller got back
    calc,            \* the last application of a pure function: inputs and result
    attempts,        \* per handler: redeliveries of its event by the provider
    locked,          \* the usage dates whose Consumption row has locked = True
    auth             \* the login-attempt counters in Redis and the last login's answer

vars == << consumption, price, usageEpoch, priceEpoch, bills, nextBillId, payments,
           webhook_events, rowLock, redisLock, secret, gen, svc, wh, batch, locks, calc,
           attempts, locked, auth >>

\* what the single-customer operations never touch
auxVars == << batch, locks, calc, attempts, locked, auth >>

dbVars == << bills, nextBillId, payments, webhook_events >>
inputVars == << consumption, price, usageEpoch, priceEpoch >>

\* the accounts that log in
Emails == {"a@x", "b@x"}

\* no login-attempt key in Redis, no login answered yet
IdleAuth ==
    [login_attempts |-> [e \in Emails |-> 0],
     email |-> None, credentials |-> None, redis_up |-> FALSE, seen |-> 0, resp |-> None]

IdleGen ==
    [pc |-> "idle", price |-> 0, total_liters |-> 0, total_amount |-> 0,
     uepoch |-> 0, lock_acquired |-> FALSE, lock_value |-> NoToken,
     bill |-> NoBill, result |-> NoBill, outcome |-> None, caller |-> None,
     lock_err |-> FALSE]

IdleSvc ==
    [pc |-> "idle", kind |-> None, total_liters |-> 0, total_amount |-> 0,
     uepoch |-> 0, bill |-> NoBill, outcome |-> None]

IdleWh ==
    [pc |-> "idle", verified |-> FALSE, event_type |-> None, payment_id |-> None,
     bill_ref |-> 0, bill |-> NoBill, flushed |-> FALSE, fault |-> FALSE,
     dup |-> FALSE, resp |-> None]

\* the customers of a batch run, in the order the query returns them; the second
\* one has no usage in the period
Users == << TheUser, "u2" >>

IdleBatch ==
    [pc |-> "idle", kind |-> None, i |-> 0, consumption_map |-> 0, uepoch |-> 0,
     total_liters |-> 0, total_amount |-> 0, seen |-> NoBill,
     pending |-> {}, done |-> {}, errors |-> {}, outcome |-> None]

\* the callers of the lock functions
LockCallers == Workers \cup {"w3"}

\* lock_key = f"bill:generate:{user_id}:{month}"
LockKeys == { "bill:generate:u1:2024-02", "bill:generate:u2:2024-02" }

IdleLocks ==
    [store |-> [k \in LockKeys |-> NoToken],
     held |-> [w \in LockCallers |-> [key |-> None, lock_acquired |-> FALSE,
                                      lock_value |-> NoToken, done |-> FALSE,
                                      released |-> FALSE]]]

IdleCalc == [op |-> None, args |-> << >>, out |-> << >>]

Init ==
    /\ consumption = [d \in UsageDates |-> 0]
    /\ price = InitialPrice
    /\ usageEpoch = 0
    /\ priceEpoch = 0
    /\ bills = {}
    /\ nextBillId = 1
    /\ payments = << >>
    /\ webhook_events = {}
    /\ rowLock = None
    /\ redisLock = NoToken
    /\ secret \in BOOLEAN
    /\ gen = [w \in Workers |-> IdleGen]
    /\ svc = IdleSvc
    /\ wh = [h \in Handlers |-> IdleWh]
    /\ batch = IdleBatch
    /\ locks = IdleLocks
    /\ calc = IdleCalc
    /\ attempts = [h \in Handlers |-> 0]
    /\ locked = {}
    /\ auth = IdleAuth

(* ------------------------- queries on the tables ---------------------- *)
\* select(Bill).where(Bill.user_id == user_id, Bill.month == month)
BillsFor(user, month) == { b \in bills : b.user_id = user /\ b.month = month }

FirstBill(user, month) ==
    IF BillsFor(user, month) = {} THEN NoBill
    ELSE CHOOSE b \in BillsFor(user, month) :
            \A c \in BillsFor(user, month) : b.id <= c.id

BillById(id) ==
    IF \E b \in bills : b.id = id THEN CHOOSE b \in bills : b.id = id ELSE NoBill

\* func.sum(Consumption.quantity) over start_date <= date <= end_date
SumUsage(month) ==
    LET range == calculate_month_range(month)
        inside == { d \in UsageDates : DateLE(range[1], d) /\ DateLE(d, range[2]) }
    IN  SumOver(consumption, inside)

\* UniqueConstraint('user_id', 'month'): may a row for this pair be inserted
uix_user_month_bill_off(user, month) == TRUE

uix_user_month_bill(user, month) == BillsFor(user, month) = {}

NewBill(id, user, month, liters, amount, ue, by) ==
    [id |-> id, user_id |-> user, month |-> month, total_liters |-> liters,
     total_amount |-> amount, status |-> "UNPAID", is_locked |-> FALSE,
     version |-> 1, price_per_liter_snapshot |-> None, uepoch |-> ue, by |-> by]

\* a statement that writes row id waits while another transaction holds its lock
RowFreeAlways(id, me) == TRUE

RowFree(id, me) == rowLock = None \/ rowLock = me \/ id = 0

(* --------------------------- usage and price -------------------------- *)
\* upsert_consumption: set the quantity of (TheUser, d); an explicitly locked row is
\* refused, an equal value is "unchanged"
EditUsage(d, q) ==
    /\ usageEpoch + priceEpoch < MaxEdits
    /\ d \notin locked
    /\ consumption[d] # q
    /\ consumption' = [consumption EXCEPT ![d] = q]
    /\ usageEpoch' = usageEpoch + 1
    /\ UNCHANGED << price, priceEpoch, dbVars, rowLock, redisLock, secret, gen, svc, wh,
                    auxVars >>

\* update_user with price_per_liter set
ChangePrice(p) ==
    /\ usageEpoch + priceEpoch < MaxEdits
    /\ p # price
    /\ price' = p
    /\ priceEpoch' = priceEpoch + 1
    /\ UNCHANGED << consumption, usageEpoch, dbVars, rowLock, redisLock, secret, gen, svc,
                    wh, auxVars >>

\* the backfill UPDATE bills SET is_locked = TRUE WHERE status = 'PAID' OR
\* pdf_url IS NOT NULL; has_pdf: the PDF task has stored the bill's pdf_url
add_bill_columns(has_pdf) ==
    /\ bills' = { IF b.status = "PAID" \/ has_pdf THEN [b EXCEPT !.is_locked = TRUE]
                  ELSE b : b \in bills }
    /\ bills' # bills
    /\ UNCHANGED << inputVars, nextBillId, payments, webhook_events, rowLock, redisLock,
                    secret, gen, svc, wh, auxVars >>

(* ------------------------- the distributed lock ----------------------- *)
\* a SET without NX
AcquireOverwrite(stored, lock_value) == lock_value

\* a DEL without the comparison
ReleaseAnyToken(stored, lock_value) == NoToken

\* redis.set(lock_key, lock_value, nx=True, ex=timeout): the stored value afterwards
_acquire_bill_lock(stored, lock_value) ==
    IF stored = NoToken THEN lock_value ELSE stored

\* the Lua script: delete the key only if it holds lock_value
_release_bill_lock(stored, lock_value) ==
    IF stored = lock_value THEN NoToken ELSE stored

\* generate_bill_for_user sets lock_key = None and never assigns it again
lock_key == None

\* the key's expiry (ex=300) passes
LockExpire ==
    /\ redisLock # NoToken
    /\ redisLock' = NoToken
    /\ UNCHANGED << inputVars, dbVars, rowLock, secret, gen, svc, wh, auxVars >>

(* ----------------------- generate_bill_for_user ----------------------- *)
GenFrame == UNCHANGED << inputVars, rowLock, secret, svc, wh, auxVars >>

\* str(uuid.uuid4()): a value no other call draws
LockValue(w) == IF w = "w1" THEN 1 ELSE IF w = "w2" THEN 2 ELSE 3

\* the call is over: what it returned or raised, and the total it had computed
GenDone(w, result, outcome) ==
    [IdleGen EXCEPT !.pc = "done", !.total_liters = gen[w].total_liters,
                    !.lock_acquired = gen[w].lock_acquired,
                    !.result = result, !.outcome = outcome]

\* generate_all_bills(db, month, skip_paid): the loop body before the call
generate_all_bills(w, skip_paid) ==
    /\ gen[w].pc = "idle"
    /\ IF skip_paid /\ \E b \in BillsFor(TheUser, BillMonth) : b.status = "PAID"
       THEN gen' = [gen EXCEPT ![w] = GenDone(w, NoBill, "skipped")]
       ELSE gen' = [gen EXCEPT ![w].pc = "call"]
    /\ UNCHANGED << dbVars, redisLock >>
    /\ GenFrame

\* save_daily_entry for a date of the period: the entry is stored when it differs
\* from the stored quantity, committed, and the user's bill is then recalculated
\* by generate_bill_for_user in a new session
save_daily_entry(w, d, q) ==
    /\ gen[w].pc = "idle"
    /\ d.y = BillMonth.year /\ d.m = BillMonth.mon
    /\ consumption[d] # q
    /\ consumption' = [consumption EXCEPT ![d] = q]
    /\ usageEpoch' = usageEpoch + 1
    /\ gen' = [gen EXCEPT ![w].pc = "call", ![w].caller = "save_daily_entry"]
    /\ UNCHANGED << price, priceEpoch, dbVars, rowLock, redisLock, secret, svc, wh,
                    auxVars >>

\* select(User): price = Decimal(str(user.price_per_liter or 0))
GenLoadUser(w) ==
    /\ gen[w].pc \in {"idle", "call"}
    /\ gen' = [gen EXCEPT ![w].pc = "loaded", ![w].price = price]
    /\ UNCHANGED << dbVars, redisLock >>
    /\ GenFrame

\* the coalesce(sum(quantity)) query, quantized, and calculate_bill_amount
GenAggregate(w) ==
    /\ gen[w].pc = "loaded"
    /\ gen' = [gen EXCEPT ![w].pc = "aggregated",
                          ![w].total_liters = SumUsage(BillMonth),
                          ![w].total_amount =
                              calculate_bill_amount(SumUsage(BillMonth), gen[w].price),
                          ![w].uepoch = usageEpoch]
    /\ UNCHANGED << dbVars, redisLock >>
    /\ GenFrame

\* get_redis() and _acquire_bill_lock; a failing Redis leaves lock_acquired False
GenAcquireLock(w) ==
    /\ gen[w].pc = "aggregated"
    /\ \E redis_ok \in BOOLEAN :
          LET stored == IF redis_ok THEN _acquire_bill_lock(redisLock, LockValue(w))
                        ELSE redisLock
              got == redis_ok /\ redisLock = NoToken
          IN  /\ redisLock' = stored
              /\ gen' = [gen EXCEPT ![w].lock_acquired = got,
                                    ![w].lock_err = ~redis_ok,
                                    ![w].lock_value = LockValue(w),
                                    ![w].pc = IF got THEN "upsert" ELSE "gate"]
    /\ UNCHANGED dbVars
    /\ GenFrame

\* a loop that sleeps again while no bill exists
WaitAgain(existing_bill) == IF existing_bill # NoBill THEN "return" ELSE "gate"

\* after the one asyncio.sleep(0.5): `if existing_bill: return existing_bill`,
\* otherwise fall through to the upsert
AfterWait(existing_bill) == IF existing_bill # NoBill THEN "return" ELSE "upsert"

\* not lock_acquired: sleep, fetch the bill again, return it if it exists
GenGate(w) ==
    /\ gen[w].pc = "gate"
    /\ LET existing_bill == FirstBill(TheUser, BillMonth)
       IN  IF AfterWait(existing_bill) = "return"
           THEN gen' = [gen EXCEPT ![w] = GenDone(w, existing_bill, "existing")]
           ELSE gen' = [gen EXCEPT ![w].pc = AfterWait(existing_bill),
                                   ![w].lock_err = FALSE]
    /\ UNCHANGED << dbVars, redisLock >>
    /\ GenFrame

\* "Upsert bill": the select before the branch on `if bill`
GenReadBill(w) ==
    /\ gen[w].pc = "upsert"
    /\ gen' = [gen EXCEPT ![w].pc = "write", ![w].bill = FirstBill(TheUser, BillMonth)]
    /\ UNCHANGED << dbVars, redisLock >>
    /\ GenFrame

\* Bill has a version column, so hasattr(bill, 'version') holds
HasVersion == TRUE

\* .where(Bill.id == bill.id, Bill.version == bill.version)
VersionMatchesAlways(row, seen) == row.id = seen.id

VersionMatches(row, seen) == row.id = seen.id /\ row.version = seen.version

\* .values(total_liters=, total_amount=, version=bill.version + 1, updated_at=)
UpdateValuesResetStatus(row, seen, liters, amount, ue) ==
    [row EXCEPT !.total_liters = liters, !.total_amount = amount,
                !.version = seen.version + 1, !.status = "UNPAID",
                !.uepoch = ue, !.by = "gen"]

UpdateValues(row, seen, liters, amount, ue) ==
    [row EXCEPT !.total_liters = liters, !.total_amount = amount,
                !.version = seen.version + 1,
                !.uepoch = ue, !.by = "gen"]

\* the branch without optimistic locking
FallbackValues(row, liters, amount, ue) ==
    [row EXCEPT !.total_liters = liters, !.total_amount = amount,
                !.status = IF row.status # "PAID" THEN "UNPAID" ELSE row.status,
                !.uepoch = ue, !.by = "gen"]

\* the finally block: release only `if redis and lock_acquired and lock_key`
GenFinally(w) ==
    redisLock' = IF gen[w].lock_acquired /\ lock_key # None
                 THEN _release_bill_lock(redisLock, gen[w].lock_value)
                 ELSE redisLock

\* the update or the insert, its commit and refresh, and the finally block
GenWrite(w) ==
    /\ gen[w].pc = "write"
    /\ LET g == gen[w]
           seen == g.bill
           row == BillById(seen.id)
       IN  IF seen # NoBill
           THEN /\ RowFree(seen.id, w)
                /\ IF HasVersion
                   THEN IF VersionMatches(row, seen)
                        THEN LET new == UpdateValues(row, seen, g.total_liters,
                                                     g.total_amount, g.uepoch)
                             IN  /\ bills' = (bills \ {row}) \cup {new}
                                 /\ gen' = [gen EXCEPT ![w] = GenDone(w, new, "updated")]
                        ELSE /\ bills' = bills
                             /\ gen' = [gen EXCEPT ![w] = GenDone(w, NoBill, "conflict")]
                   ELSE LET new == FallbackValues(row, g.total_liters, g.total_amount,
                                                  g.uepoch)
                        IN  /\ bills' = (bills \ {row}) \cup {new}
                            /\ gen' = [gen EXCEPT ![w] = GenDone(w, new, "updated")]
                /\ nextBillId' = nextBillId
           ELSE IF uix_user_month_bill(TheUser, BillMonth)
                THEN LET new == NewBill(nextBillId, TheUser, BillMonth, g.total_liters,
                                        g.total_amount, g.uepoch, "gen")
                     IN  /\ bills' = bills \cup {new}
                         /\ nextBillId' = nextBillId + 1
                         /\ gen' = [gen EXCEPT ![w] = GenDone(w, new, "created")]
                ELSE /\ bills' = bills
                     /\ nextBillId' = nextBillId
                     /\ gen' = [gen EXCEPT ![w] = GenDone(w, NoBill, "integrity_error")]
    /\ GenFinally(w)
    /\ UNCHANGED << payments, webhook_events >>
    /\ GenFrame

(* ---- recalculate_bill and the generate / generate-all endpoints ------- *)
SvcKinds == {"recalculate_bill", "generate_bill", "generate_all"}

SvcFrame == UNCHANGED << inputVars, redisLock, secret, gen, wh, auxVars >>

\* the reads: the user, the period's consumption rows, the bill of the pair
SvcRead(kind) ==
    /\ svc.pc = "idle"
    /\ svc' = [pc |-> "write", kind |-> kind,
               total_liters |-> SumUsage(BillMonth),
               total_amount |-> calculate_amount(SumUsage(BillMonth), price),
               uepoch |-> usageEpoch,
               bill |-> FirstBill(TheUser, BillMonth), outcome |-> None]
    /\ UNCHANGED << dbVars, rowLock >>
    /\ SvcFrame

\* the unit of work's UPDATE: only the attributes whose value was changed
OrmTotals(row, seen, liters, amount, ue) ==
    [row EXCEPT !.total_liters = IF liters # seen.total_liters THEN liters ELSE @,
                !.total_amount = IF amount # seen.total_amount THEN amount ELSE @,
                !.uepoch = ue, !.by = "svc"]

SvcDone(outcome) == [IdleSvc EXCEPT !.pc = "done", !.outcome = outcome]

\* "Upsert Bill": the branch on existing_bill, the flush and the commit
SvcWrite ==
    /\ svc.pc = "write"
    /\ LET seen == svc.bill
           row == BillById(seen.id)
       IN  IF seen # NoBill
           THEN IF seen.status = "PAID"
                THEN /\ bills' = bills
                     /\ svc' = SvcDone("paid_untouched")
                ELSE IF svc.kind = "recalculate_bill" /\ seen.is_locked
                THEN /\ bills' = bills
                     /\ svc' = SvcDone("locked_untouched")
                ELSE /\ RowFree(seen.id, "svc")
                     /\ bills' = (bills \ {row}) \cup
                            {OrmTotals(row, seen, svc.total_liters, svc.total_amount,
                                       svc.uepoch)}
                     /\ svc' = SvcDone("updated")
           ELSE IF svc.kind = "recalculate_bill" /\ ~(svc.total_liters > 0)
                THEN /\ bills' = bills
                     /\ svc' = SvcDone("none")
                ELSE IF uix_user_month_bill(TheUser, BillMonth)
                THEN /\ bills' = bills \cup
                            {NewBill(nextBillId, TheUser, BillMonth, svc.total_liters,
                                     svc.total_amount, svc.uepoch, "svc")}
                     /\ svc' = SvcDone("created")
                ELSE /\ bills' = bills
                     /\ svc' = SvcDone("integrity_error")
    /\ nextBillId' = IF bills' # bills /\ svc.bill = NoBill THEN nextBillId + 1
                     ELSE nextBillId
    /\ UNCHANGED << payments, webhook_events, rowLock >>
    /\ SvcFrame

(* --------------------------- payment_webhook -------------------------- *)
WhFrame == UNCHANGED << inputVars, redisLock, secret, gen, svc, auxVars >>

EventExists(pid) == \E e \in webhook_events : e.event_id = pid

\* UniqueConstraint('provider', 'event_id'): may a row for this event be inserted
uix_provider_event(pid) == ~EventExists(pid)

\* another transaction has inserted this event and not yet committed
UncommittedBy(pid, h) ==
    \E k \in Handlers \ {h} : wh[k].flushed /\ wh[k].payment_id = pid

NewEvent(pid, etype, status, verified) ==
    [event_id |-> pid, event_type |-> etype, status |-> status, verified |-> verified]

NewPayment(bill_id, pid, amount, status) ==
    [bill_id |-> bill_id, provider_payment_id |-> pid, amount |-> amount,
     status |-> status]

\* every event type taken for a payment
AnyEventType(etype) == TRUE

\* event_type == "payment.captured" or event_type == "order.paid"
IsSuccessEvent(etype) == etype \in SuccessEvents

\* steps 1-9: headers, signature, timestamp, event type, ids, idempotency check;
\* where the request stands after them
WhAccept(sig, ts, etype, pid, ref) ==
    LET req == [IdleWh EXCEPT !.verified = secret /\ sig = "good",
                              !.event_type = etype, !.payment_id = pid,
                              !.bill_ref = ref, !.dup = EventExists(pid)]
        end(resp) == [req EXCEPT !.pc = "done", !.resp = resp, !.bill_ref = 0]
    IN  IF secret /\ sig # "good" THEN end("400")
        ELSE IF secret /\ ts = "skewed" THEN end("400")
        ELSE IF etype = "payment.failed"
             THEN [req EXCEPT !.pc = IF ref > 0 THEN "pf_read" ELSE "pf_commit"]
        ELSE IF ~IsSuccessEvent(etype) THEN end("ignored")
        ELSE IF ref = 0 THEN end("ignored")
        ELSE IF EventExists(pid) THEN end("already_processed")
        ELSE [req EXCEPT !.pc = "flush"]

WhReceive(h, sig, ts, etype, pid, ref) ==
    /\ wh[h].pc = "idle"
    /\ wh' = [wh EXCEPT ![h] = WhAccept(sig, ts, etype, pid, ref)]
    /\ UNCHANGED << dbVars, rowLock >>
    /\ WhFrame

\* the response: what the request was and how it was answered
WhDone(h, fault, resp) ==
    [IdleWh EXCEPT !.pc = "done", !.verified = wh[h].verified,
                   !.event_type = wh[h].event_type, !.payment_id = wh[h].payment_id,
                   !.dup = wh[h].dup, !.fault = fault, !.resp = resp]

\* UUID(bill_id_str) raises ValueError inside the try block before any statement
\* runs. Otherwise step 10 reaches the database with the autoflush of the next
\* execute: the INSERT waits for an uncommitted row of the same event and fails on
\* a committed one. Either exception ends in the except block: rollback, HTTP 500.
WhFlushEvent(h) ==
    /\ wh[h].pc = "flush"
    /\ IF wh[h].bill_ref < 0
       THEN wh' = [wh EXCEPT ![h] = WhDone(h, FALSE, "500")]
       ELSE /\ ~UncommittedBy(wh[h].payment_id, h)
            /\ IF uix_provider_event(wh[h].payment_id)
               THEN wh' = [wh EXCEPT ![h].pc = "lock", ![h].flushed = TRUE]
               ELSE wh' = [wh EXCEPT ![h] = WhDone(h, FALSE, "500")]
    /\ UNCHANGED << dbVars, rowLock >>
    /\ WhFrame

\* select(Bill).where(Bill.id == bill_id).with_for_update()
WhSelectForUpdate(h) ==
    /\ wh[h].pc = "lock"
    /\ LET b == BillById(wh[h].bill_ref)
       IN  /\ RowFree(b.id, h)
           /\ rowLock' = IF b # NoBill THEN h ELSE rowLock
           /\ wh' = [wh EXCEPT ![h].pc = "apply", ![h].bill = b]
    /\ UNCHANGED dbVars
    /\ WhFrame

\* amount=bill.total_amount
PaymentAmountZero(bill) == 0

PaymentAmount(bill) == bill.total_amount

\* bill.status = "PAID": the UPDATE writes the status column of the locked row
MarkPaid(row) == [row EXCEPT !.status = "PAID"]

\* the rest of step 11 up to its single commit
WhCommit(h) ==
    /\ wh[h].pc = "apply"
    /\ LET r == wh[h]
           bill == r.bill
       IN  IF bill = NoBill
           THEN /\ webhook_events' = webhook_events \cup
                       {NewEvent(r.payment_id, r.event_type, "failed", r.verified)}
                /\ UNCHANGED << bills, payments >>
                /\ wh' = [wh EXCEPT ![h] = WhDone(h, FALSE, "error")]
           ELSE IF bill.status = "PAID"
           THEN /\ webhook_events' = webhook_events \cup
                       {NewEvent(r.payment_id, r.event_type, "processed", r.verified)}
                /\ UNCHANGED << bills, payments >>
                /\ wh' = [wh EXCEPT ![h] = WhDone(h, FALSE, "bill_already_paid")]
           ELSE /\ bills' = (bills \ {BillById(bill.id)}) \cup {MarkPaid(BillById(bill.id))}
                /\ payments' = Append(payments,
                       NewPayment(bill.id, r.payment_id, PaymentAmount(bill), "SUCCESS"))
                /\ webhook_events' = webhook_events \cup
                       {NewEvent(r.payment_id, r.event_type, "processed", r.verified)}
                /\ wh' = [wh EXCEPT ![h] = WhDone(h, FALSE, "success")]
    /\ rowLock' = IF rowLock = h THEN None ELSE rowLock
    /\ UNCHANGED nextBillId
    /\ WhFrame

\* webhook_event.status = "failed" taking effect on a row of the event
FailedEventKept(r) == { NewEvent(r.payment_id, r.event_type, "failed", r.verified) }

\* the rows the except block's commit writes: db.rollback() has expunged the event
\* added in the transaction, so the assignment to its status reaches no row
FailedEventRows(r) == {}

\* except Exception: rollback, webhook_event.status = "failed", commit, HTTP 500
WhFail(h) ==
    /\ wh[h].pc \in {"lock", "apply"}
    /\ wh' = [wh EXCEPT ![h] = WhDone(h, TRUE, "500")]
    /\ rowLock' = IF rowLock = h THEN None ELSE rowLock
    /\ webhook_events' = webhook_events \cup FailedEventRows(wh[h])
    /\ UNCHANGED << bills, nextBillId, payments >>
    /\ WhFrame

\* _handle_payment_failed with a bill reference: the event is flushed by the
\* select of the bill, which takes no lock
WhFailedSelect(h) ==
    /\ wh[h].pc = "pf_read"
    /\ ~UncommittedBy(wh[h].payment_id, h)
    /\ IF uix_provider_event(wh[h].payment_id)
       THEN wh' = [wh EXCEPT ![h].pc = "pf_commit", ![h].flushed = TRUE,
                             ![h].bill = BillById(wh[h].bill_ref)]
       ELSE wh' = [wh EXCEPT ![h] = WhDone(h, FALSE, "500")]
    /\ UNCHANGED << dbVars, rowLock >>
    /\ WhFrame

\* if bill and bill.status != "PAID": a FAILED payment is recorded
FailedPaymentForAnyBill(bill) == bill # NoBill

FailedPaymentRecorded(bill) == bill # NoBill /\ bill.status # "PAID"

\* _handle_payment_failed: the commit of the event and of the FAILED payment
WhFailedCommit(h) ==
    /\ wh[h].pc = "pf_commit"
    /\ wh[h].flushed \/ ~UncommittedBy(wh[h].payment_id, h)
    /\ LET r == wh[h]
       IN  IF ~r.flushed /\ ~uix_provider_event(r.payment_id)
           THEN /\ UNCHANGED << webhook_events, payments >>
                /\ wh' = [wh EXCEPT ![h] = WhDone(h, FALSE, "500")]
           ELSE /\ webhook_events' = webhook_events \cup
                       {NewEvent(r.payment_id, "payment.failed", "processed", r.verified)}
                /\ payments' = IF FailedPaymentRecorded(r.bill)
                               THEN Append(payments,
                                        NewPayment(r.bill.id, r.payment_id, 0, "FAILED"))
                               ELSE payments
                /\ wh' = [wh EXCEPT ![h] = WhDone(h, FALSE, "payment_failure_recorded")]
    /\ UNCHANGED << bills, nextBillId, rowLock >>
    /\ WhFrame

(* --------------------------- the specification ------------------------ *)
\* the generation paths racing each other, usage edits and one captured payment
Next ==
    \/ \E d \in UsageDates, q \in Quantities : EditUsage(d, q)
    \/ LockExpire
    \/ \E w \in Workers, skip_paid \in BOOLEAN : generate_all_bills(w, skip_paid)
    \/ \E w \in Workers : GenLoadUser(w)
    \/ \E w \in Workers : GenAggregate(w)
    \/ \E w \in Workers : GenAcquireLock(w)
    \/ \E w \in Workers : GenGate(w)
    \/ \E w \in Workers : GenReadBill(w)
    \/ \E w \in Workers : GenWrite(w)
    \/ \E kind \in SvcKinds : SvcRead(kind)
    \/ SvcWrite
    \/ WhReceive("h1", "good", "absent", "payment.captured", "pay_1", 1)
    \/ WhFlushEvent("h1")
    \/ WhSelectForUpdate("h1")
    \/ WhCommit("h1")

\* the deployment with RAZORPAY_WEBHOOK_SECRET configured
InitConfigured == Init /\ secret = TRUE

Spec == InitConfigured /\ [][Next]_vars

\* webhook deliveries racing each other and an upsert of the bill they refer to
NextWebhook ==
    \/ \E d \in UsageDates, q \in Quantities : EditUsage(d, q)
    \/ \E kind \in SvcKinds : SvcRead(kind)
    \/ SvcWrite
    \/ \E h \in Handlers, sig \in SigKinds, ts \in TsKinds, etype \in EventTypes,
          pid \in PayIds, ref \in BillRefs : WhReceive(h, sig, ts, etype, pid, ref)
    \/ \E h \in Handlers : WhFlushEvent(h)
    \/ \E h \in Handlers : WhSelectForUpdate(h)
    \/ \E h \in Handlers : WhCommit(h)
    \/ \E h \in Handlers : WhFail(h)
    \/ \E h \in Handlers : WhFailedSelect(h)
    \/ \E h \in Handlers : WhFailedCommit(h)

SpecWebhook == Init /\ [][NextWebhook]_vars

\* daily entries and their recalculation, the finalization backfill, price changes
\* and the generation paths
NextEntry ==
    \/ \E d \in UsageDates, q \in Quantities : EditUsage(d, q)
    \/ \E p \in Prices : ChangePrice(p)
    \/ \E w \in Workers, d \in UsageDates, q \in EntryQuantities : save_daily_entry(w, d, q)
    \/ \E has_pdf \in BOOLEAN : add_bill_columns(has_pdf)
    \/ LockExpire
    \/ \E w \in Workers, skip_paid \in BOOLEAN : generate_all_bills(w, skip_paid)
    \/ \E w \in Workers : GenLoadUser(w)
    \/ \E w \in Workers : GenAggregate(w)
    \/ \E w \in Workers : GenAcquireLock(w)
    \/ \E w \in Workers : GenGate(w)
    \/ \E w \in Workers : GenReadBill(w)
    \/ \E w \in Workers : GenWrite(w)
    \/ \E kind \in SvcKinds : SvcRead(kind)
    \/ SvcWrite

SpecEntry == InitConfigured /\ [][NextEntry]_vars

TypeOK ==
    /\ \A b \in bills : b.status \in {"UNPAID", "PAID"} /\ b.version >= 1
    /\ rowLock \in Handlers \cup {None}

(* ------------------------------ properties ---------------------------- *)
SuccessPayments(bill_id) ==
    { i \in DOMAIN payments :
        payments[i].bill_id = bill_id /\ payments[i].status = "SUCCESS" }

\* C1: once a bill is PAID, no step changes its total_liters or total_amount,
\* whatever the usage has become.
C1_PaidTotalsFrozen ==
    [][\A b \in bills : b.status = "PAID" =>
          \A c \in bills' : c.id = b.id =>
              c.total_liters = b.total_liters /\ c.total_amount = b.total_amount]_vars

\* C2: there is never more than one bill row for the (user, month) pair; once a
\* generation call has finished there is exactly one, and every call that returned
\* a bill returned that row (the same id).
C2_OneBillPerPair ==
    /\ Cardinality(BillsFor(TheUser, BillMonth)) <= 1
    /\ \A w \in Workers : gen[w].pc = "done" =>
          /\ Cardinality(BillsFor(TheUser, BillMonth)) = 1
          /\ gen[w].result # NoBill =>
                \A b \in BillsFor(TheUser, BillMonth) : b.id = gen[w].result.id

\* two calls raced on the insert: one created the row, the other hit the constraint
C2_Witness ==
    \E w, v \in Workers :
        gen[w].outcome = "created" /\ gen[v].outcome = "integrity_error"

\* C3: when a success event has been applied by one delivery, every other delivery
\* of the same event is answered "already_processed", and the event has exactly one
\* SUCCESS payment.
C3_ReplayAcknowledged ==
    \A h, k \in Handlers :
        ( /\ h # k
          /\ wh[k].pc = "done" /\ wh[k].resp = "success"
          /\ wh[h].pc = "done" /\ ~wh[h].fault
          /\ wh[h].event_type \in SuccessEvents
          /\ wh[h].payment_id = wh[k].payment_id
          /\ wh[h].resp \notin {"400", "ignored"} )
        => /\ wh[h].resp = "already_processed"
           /\ Cardinality({ i \in DOMAIN payments :
                  payments[i].provider_payment_id = wh[k].payment_id
                  /\ payments[i].status = "SUCCESS" }) = 1

\* the commit of a success event: bill PAID, one SUCCESS payment of the bill's
\* amount appended, the event recorded as processed, all in the one step
AppliedAtomically(h) ==
    LET id == wh[h].bill.id
        paid == CHOOSE c \in bills' : c.id = id
    IN  /\ paid.status = "PAID"
        /\ payments' = Append(payments,
               NewPayment(id, wh[h].payment_id, paid.total_amount, "SUCCESS"))
        /\ \E e \in webhook_events' :
               e.event_id = wh[h].payment_id /\ e.status = "processed"

\* C4: a success event for an UNPAID bill is applied in one commit (bill PAID, a
\* SUCCESS payment of the bill's total_amount, event processed), and in every
\* committed state a bill is PAID exactly when it has one SUCCESS payment, and
\* an UNPAID bill has none.
C4_AppliedAtomically ==
    /\ [](\A b \in bills :
            Cardinality(SuccessPayments(b.id)) = IF b.status = "PAID" THEN 1 ELSE 0)
    /\ [][\A h \in Handlers :
            (wh[h].pc = "apply" /\ wh'[h].resp = "success") => AppliedAtomically(h)]_vars

\* a bill with a nonzero amount has been paid by a webhook that answered success
C4_Witness ==
    \E h \in Handlers :
        /\ wh[h].resp = "success"
        /\ \E b \in bills : b.status = "PAID" /\ b.total_amount > 0
                            /\ Cardinality(SuccessPayments(b.id)) = 1

\* C5: a request that did not pass signature verification is answered with a
\* client error, and every WebhookEvent row was created by a request that passed it.
C5_NothingBeforeVerification ==
    /\ \A h \in Handlers : (wh[h].pc # "idle" /\ ~wh[h].verified) => wh[h].resp = "400"
    /\ \A e \in webhook_events : e.verified

\* C6: a bill returned by generate_bill_for_user carries the total this call
\* aggregated from the period's usage.
C6_ReturnedTotalIsUsageSum ==
    \A w \in Workers :
        (gen[w].pc = "done" /\ gen[w].result # NoBill)
        => gen[w].result.total_liters = gen[w].total_liters

\* C7: no update by generate_bill_for_user replaces totals written by
\* generate_bill_for_user with totals aggregated from an older usage state.
C7_NoLostUpdate ==
    [][\A b \in bills : \A c \in bills' :
          (c.id = b.id /\ b.by = "gen" /\ c.by = "gen" /\ c.version # b.version)
          => c.uepoch >= b.uepoch]_vars

\* the step that ends an update attempt on a bill the call had read
CasStep(w) ==
    LET seen == gen[w].bill
        before == BillById(seen.id)
        after == CHOOSE c \in bills' : c.id = seen.id
    IN  IF before.version = seen.version
        THEN /\ gen'[w].outcome = "updated"
             /\ after.version = seen.version + 1
             /\ after.total_liters = gen[w].total_liters
             /\ after.total_amount = gen[w].total_amount
        ELSE /\ gen'[w].outcome = "conflict"
             /\ bills' = bills

\* C8: an update is applied only if the row still has the version the call read,
\* and then sets version + 1; otherwise the call raises and the row stays as the
\* winner wrote it; two calls that read the same version never both win.
C8_CompareAndSwap ==
    /\ [][\A w \in Workers :
            (gen[w].pc = "write" /\ gen[w].bill # NoBill /\ gen'[w].pc = "done")
            => CasStep(w)]_vars
    /\ [](\A w, v \in Workers :
            (w # v /\ gen[w].outcome = "updated" /\ gen[v].outcome = "updated")
            => gen[w].result.version # gen[v].result.version)

\* two calls attempted the update of one bill: one won, the other raised
C8_Witness ==
    \E w, v \in Workers : gen[w].outcome = "updated" /\ gen[v].outcome = "conflict"

\* C9: a generate_bill_for_user call that finishes on a bill last written by
\* generate_bill_for_user from the same usage and price leaves the bill as it is.
C9_Idempotent ==
    [][\A w \in Workers : \A b \in bills :
          ( /\ gen[w].pc = "write" /\ gen'[w].pc = "done"
            /\ b.by = "gen"
            /\ b.uepoch = usageEpoch /\ gen[w].uepoch = usageEpoch
            /\ gen[w].price = price
            /\ b.total_liters = gen[w].total_liters
            /\ b.total_amount = gen[w].total_amount )
          => bills' = bills]_vars

\* C10: no step takes a bill from PAID back to UNPAID, and no bill row disappears.
C10_PaidIsTerminal ==
    [][\A b \in bills :
          /\ \E c \in bills' : c.id = b.id
          /\ b.status = "PAID" => \A c \in bills' : c.id = b.id => c.status = "PAID"]_vars

\* a generation call has rewritten a bill that was already PAID
C10_Witness ==
    \E w \in Workers :
        gen[w].outcome = "updated" /\ gen[w].result.status = "PAID"

\* C11: a bill is created with version 1, its version never decreases, and every
\* committed change of its totals or status raises the version by exactly one.
C11_VersionCountsMutations ==
    [][/\ \A c \in bills' : (\A b \in bills : b.id # c.id) => c.version = 1
       /\ \A b \in bills : \A c \in bills' : c.id = b.id =>
             /\ c.version >= b.version
             /\ ( c.total_liters # b.total_liters \/ c.total_amount # b.total_amount
                  \/ c.status # b.status ) => c.version = b.version + 1]_vars

\* C12: a PAID bill's total_amount equals the amount of its SUCCESS payment.
C12_PaidAmountIsPaymentAmount ==
    \A b \in bills : b.status = "PAID" =>
        \A i \in SuccessPayments(b.id) : payments[i].amount = b.total_amount

\* the rows of webhook_events for an event id with a given status
EventRows(pid, status) ==
    { e \in webhook_events : e.event_id = pid /\ e.status = status }

\* C13: two different success events for the same UNPAID bill are serialized by
\* the row lock: exactly one answers "success" and leaves the one SUCCESS payment,
\* the other finds the bill PAID, records its event as processed and adds no payment.
C13_DifferentEventsSerialized ==
    /\ [](\A h, k \in Handlers :
            ( /\ h # k
              /\ wh[h].pc = "done" /\ wh[k].pc = "done"
              /\ wh[h].payment_id # wh[k].payment_id
              /\ wh[h].resp \in {"success", "bill_already_paid"}
              /\ wh[k].resp \in {"success", "bill_already_paid"} )
            => /\ wh[h].resp # wh[k].resp
               /\ \A b \in bills : b.status = "PAID" /\ Cardinality(SuccessPayments(b.id)) = 1
               /\ EventRows(wh[h].payment_id, "processed") # {}
               /\ EventRows(wh[k].payment_id, "processed") # {})
    /\ [][\A h \in Handlers :
            (wh[h].pc = "apply" /\ wh'[h].resp = "bill_already_paid")
            => payments' = payments /\ bills' = bills]_vars

\* a captured and an order-paid event for one bill: one paid it, the other found it paid
C13_Witness ==
    \E h, k \in Handlers :
        /\ wh[h].resp = "success" /\ wh[k].resp = "bill_already_paid"
        /\ wh[h].event_type # wh[k].event_type
        /\ wh[h].payment_id # wh[k].payment_id

\* C14: an exception while an event is applied leaves bills and payments as they
\* were, is answered with a server error, and leaves a WebhookEvent row of the
\* event with status "failed".
C14_FailureRecorded ==
    /\ [][\A h \in Handlers : (~wh[h].fault /\ wh'[h].fault)
            => bills' = bills /\ payments' = payments /\ wh'[h].resp = "500"]_vars
    /\ [](\A h \in Handlers : wh[h].fault => EventRows(wh[h].payment_id, "failed") # {})

\* C15: a delivery that arrives when a WebhookEvent row of its event id exists is
\* answered "already_processed" at once and writes nothing.
C15_ExistingEventShortCircuits ==
    /\ [](\A h \in Handlers :
            (wh[h].pc # "idle" /\ wh[h].dup /\ wh[h].resp \notin {"400", "ignored"})
            => wh[h].pc = "done" /\ wh[h].resp = "already_processed")
    /\ [][\A h \in Handlers :
            (wh[h].dup /\ wh'[h] # wh[h]) => dbVars' = dbVars]_vars

\* C16: a payment.failed event that arrives when a payment.failed row of its id
\* exists is answered "already_processed", not with an error.
C16_FailedEventDeduplicated ==
    \A h \in Handlers :
        ( /\ wh[h].pc = "done" /\ wh[h].event_type = "payment.failed"
          /\ wh[h].dup /\ wh[h].resp # "400"
          /\ \E e \in webhook_events :
                e.event_id = wh[h].payment_id /\ e.event_type = "payment.failed" )
        => wh[h].resp = "already_processed"

FailedPayments(pid) ==
    { i \in DOMAIN payments :
        payments[i].provider_payment_id = pid /\ payments[i].status = "FAILED" }

\* C17 as stated: handling payment.failed leaves the bills unchanged, records at
\* most one FAILED payment, and none while the referenced bill is PAID or missing.
C17_NoFailedPaymentOnPaidBill ==
    /\ [][\A h \in Handlers :
            (wh[h].event_type = "payment.failed" /\ wh'[h] # wh[h])
            => /\ bills' = bills
               /\ payments' # payments =>
                     /\ BillById(wh[h].bill_ref) # NoBill
                     /\ BillById(wh[h].bill_ref).status # "PAID"]_vars
    /\ [](\A pid \in PayIds : Cardinality(FailedPayments(pid)) <= 1)

\* C17, amended: handling payment.failed leaves the bills unchanged, records at
\* most one FAILED payment (amount 0), and none when the bill was PAID or missing
\* when the handler read it.
C17_FailedEventFrame ==
    /\ [][\A h \in Handlers :
            (wh[h].event_type = "payment.failed" /\ wh'[h] # wh[h])
            => /\ bills' = bills
               /\ \/ payments' = payments
                  \/ /\ wh[h].bill # NoBill /\ wh[h].bill.status # "PAID"
                     /\ payments' = Append(payments,
                            NewPayment(wh[h].bill.id, wh[h].payment_id, 0, "FAILED"))]_vars
    /\ [](\A pid \in PayIds : Cardinality(FailedPayments(pid)) <= 1)

\* a payment.failed event recorded its FAILED payment
C17_Witness ==
    \E h \in Handlers :
        /\ wh[h].pc = "done" /\ wh[h].event_type = "payment.failed"
        /\ wh[h].resp = "payment_failure_recorded"
        /\ Cardinality(FailedPayments(wh[h].payment_id)) = 1

\* C18: a success event whose bill reference is absent, malformed or names no
\* bill ends with its WebhookEvent row "failed", an answer that is not a server
\* error, and bills and payments unchanged.
C18_UnresolvableReference ==
    [][\A h \in Handlers :
          LET absent == /\ wh[h].pc = "idle" /\ wh'[h].pc = "done"
                        /\ wh'[h].event_type \in SuccessEvents
                        /\ wh'[h].resp = "ignored"
              malformed == wh[h].pc = "flush" /\ wh[h].bill_ref < 0 /\ wh'[h].pc = "done"
              missing == /\ wh[h].pc = "apply" /\ wh[h].bill = NoBill
                         /\ wh'[h].pc = "done" /\ ~wh'[h].fault
          IN  (absent \/ malformed \/ missing)
              => /\ wh'[h].resp # "500"
                 /\ \E e \in webhook_events' :
                       e.event_id = wh'[h].payment_id /\ e.status = "failed"
                 /\ bills' = bills /\ payments' = payments]_vars

\* C19: a finalized (is_locked) UNPAID bill keeps its total_liters, total_amount
\* and version in every step.
C19_FinalizedBillUntouched ==
    [][\A b \in bills : (b.is_locked /\ b.status = "UNPAID") =>
          \A c \in bills' : c.id = b.id =>
              /\ c.total_liters = b.total_liters
              /\ c.total_amount = b.total_amount
              /\ c.version = b.version]_vars

\* C20: the recalculation triggered by a daily entry, and recalculate_bill, create
\* a bill only when its total usage is nonzero.
C20_NoZeroBillFromEdit ==
    [][/\ \A w \in Workers :
            ( /\ gen[w].pc = "write" /\ gen[w].caller = "save_daily_entry"
              /\ gen'[w].outcome = "created" )
            => gen'[w].result.total_liters > 0
       /\ (svc.pc = "write" /\ svc.kind = "recalculate_bill" /\ svc'.outcome = "created")
            => \A c \in bills' \ bills : c.total_liters > 0]_vars

\* C23: a call that could not reach the lock backend goes on to the upsert (insert
\* or version-checked update) instead of returning the stored bill.
C23_LockUnavailableStillGenerates ==
    [][\A w \in Workers :
          (gen[w].pc = "gate" /\ gen[w].lock_err /\ gen'[w].pc # "gate")
          => gen'[w].pc = "upsert"]_vars

\* C27: every bill carries the unit price it was computed with, and its
\* total_amount is total_liters times that price, rounded half-even to 2 decimals.
C27_AmountMatchesSnapshot ==
    \A b \in bills :
        /\ b.price_per_liter_snapshot # None
        /\ b.total_amount = calculate_bill_amount(b.total_liters, b.price_per_liter_snapshot)

\* C30: when a webhook handler changes a bill or adds a payment, a WebhookEvent row
\* of its event was committed before that step.
C30_EventDurableBeforeEffects ==
    [][\A h \in Handlers :
          ( /\ wh[h].pc = "apply" /\ wh'[h].pc = "done"
            /\ (bills' # bills \/ payments' # payments) )
          => EventExists(wh[h].payment_id)]_vars

(* ------------------- the lock functions on their own ------------------ *)
LockFrame ==
    UNCHANGED << inputVars, dbVars, rowLock, redisLock, secret, gen, svc, wh, batch, calc,
                 attempts, locked, auth >>

\* redis.set(..., nx=True, ...) answers True when it stored the value, else None
SetNxReply(stored, lock_value) == _acquire_bill_lock(stored, lock_value) = lock_value

\* the Lua script's reply: what DEL returns when the value matches, else 0
EvalReply(stored, lock_value) ==
    IF _release_bill_lock(stored, lock_value) # stored THEN 1 ELSE 0

\* lock_acquired, lock_value = await _acquire_bill_lock(redis, user_id, month)
LockAcquire(w, k) ==
    /\ locks.held[w].key = None
    /\ locks' = [locks EXCEPT
                   !.store[k] = _acquire_bill_lock(locks.store[k], LockValue(w)),
                   !.held[w] = [key |-> k,
                                lock_acquired |-> SetNxReply(locks.store[k], LockValue(w)),
                                lock_value |-> LockValue(w),
                                done |-> FALSE, released |-> FALSE]]
    /\ LockFrame

\* the key's expiry (ex=timeout) passes
LockTtl(k) ==
    /\ locks.store[k] # NoToken
    /\ locks' = [locks EXCEPT !.store[k] = NoToken]
    /\ LockFrame

\* await _release_bill_lock(redis, lock_key, lock_value) by a caller that acquired
LockRelease(w) ==
    /\ locks.held[w].key # None
    /\ locks.held[w].lock_acquired
    /\ ~locks.held[w].done
    /\ LET k == locks.held[w].key
           v == locks.held[w].lock_value
       IN  locks' = [locks EXCEPT
                       !.store[k] = _release_bill_lock(locks.store[k], v),
                       !.held[w].done = TRUE,
                       !.held[w].released = (EvalReply(locks.store[k], v) = 1)]
    /\ LockFrame

NextLock ==
    \/ \E w \in LockCallers, k \in LockKeys : LockAcquire(w, k)
    \/ \E k \in LockKeys : LockTtl(k)
    \/ \E w \in LockCallers : LockRelease(w)

SpecLock == InitConfigured /\ [][NextLock]_vars

\* C24: a release deletes the key exactly when the key holds the releaser's token and
\* then answers True; otherwise it answers False and no key changes. A caller whose
\* lock expired and was taken by another caller leaves the new holder's token stored.
C24_ReleaseOnlyOwnToken ==
    [][\A w \in LockCallers :
          (~locks.held[w].done /\ locks'.held[w].done)
          => LET k == locks.held[w].key
                 v == locks.held[w].lock_value
             IN  /\ \A j \in LockKeys \ {k} : locks'.store[j] = locks.store[j]
                 /\ locks.store[k] = v
                      => locks'.store[k] = NoToken /\ locks'.held[w].released = TRUE
                 /\ locks.store[k] # v
                      => locks'.store[k] = locks.store[k]
                         /\ locks'.held[w].released = FALSE]_vars

\* a caller's release answered False while another caller's token stays under its key
C24_Witness ==
    \E w \in LockCallers : \E v \in LockCallers \ {w} :
        /\ locks.held[w].done /\ ~locks.held[w].released
        /\ locks.held[v].key = locks.held[w].key
        /\ locks.held[v].lock_acquired
        /\ locks.store[locks.held[w].key] = locks.held[v].lock_value

\* C25: an acquire stores the caller's token and answers acquired exactly when the
\* key is absent; while a token is stored every acquire of that key answers
\* not-acquired and changes nothing; no acquire touches another key; so no two
\* callers hold an unexpired lock on the same key.
C25_AcquireStep ==
    \A w \in LockCallers :
        (locks.held[w].key = None /\ locks'.held[w].key # None)
        => LET k == locks'.held[w].key
           IN  /\ \A j \in LockKeys \ {k} : locks'.store[j] = locks.store[j]
               /\ locks'.held[w].lock_acquired = (locks.store[k] = NoToken)
               /\ locks.store[k] = NoToken => locks'.store[k] = locks'.held[w].lock_value
               /\ locks.store[k] # NoToken => locks'.store[k] = locks.store[k]

\* the callers that acquired key k and whose token is still stored under it
LockHolders(k) ==
    { w \in LockCallers : /\ locks.held[w].key = k
                          /\ locks.held[w].lock_acquired
                          /\ locks.store[k] = locks.held[w].lock_value }

C25_AcquireIsSetIfAbsent ==
    /\ [](\A k \in LockKeys : Cardinality(LockHolders(k)) <= 1)
    /\ [][C25_AcquireStep]_vars

\* one caller holds a key, a second was refused on it, a third holds the other key
C25_Witness ==
    \E k \in LockKeys, w \in LockCallers : \E j \in LockKeys \ {k}, v \in LockCallers \ {w} :
        /\ LockHolders(k) = {w}
        /\ locks.held[v].key = k /\ ~locks.held[v].lock_acquired
        /\ LockHolders(j) # {}

(* ----------------------- pure functions applied ----------------------- *)
CalcFrame ==
    UNCHANGED << inputVars, dbVars, rowLock, redisLock, secret, gen, svc, wh, batch, locks,
                 attempts, locked, auth >>

\* quantities and unit prices on the 3-decimal grid, among them the ties 0.1 x 0.25,
\* 0.1 x 0.35 and 0.5 x 0.05 and the exact 0.1 x 0.3
CalcQuantities == {0, 1, 100, 500, 1500, 2500, 10500, 12345}
CalcPrices == {0, 1, 50, 250, 300, 350, 45500, 50000}

\* calculate_amount(quantity, unit_price).amount and calculate_bill_amount of the same
CalcAmount(q, p) ==
    /\ calc' = [op |-> "amount", args |-> << q, p >>,
                out |-> [raised |-> None, value |-> calculate_amount(q, p),
                         value2 |-> calculate_bill_amount(q, p)]]
    /\ CalcFrame

\* Money amounts in 10^-2 and scalars in 10^-3
MoneyAmounts == {0, 5, 125, 1050}
Scalars == {-1000, -1, 0, 500, 1000, 1500, 2500}

\* Money(amount) * other
CalcMul(a, k) ==
    /\ calc' = [op |-> "Money.__mul__", args |-> << a, k >>,
                out |-> [raised |-> Money__mul__(a, k).raised,
                         value |-> Money__mul__(a, k).value, value2 |-> 0]]
    /\ CalcFrame

\* user.price_per_liter of a User object that carries None
NullPrice == -1

\* Decimal(str(user.price_per_liter or 0)): the price, or the exception
price_or_zero(price_per_liter) ==
    IF price_per_liter = NullPrice \/ price_per_liter = 0
    THEN [raised |-> None, value |-> 0]
    ELSE [raised |-> None, value |-> price_per_liter]

\* Decimal(str(user.price_per_liter)): Decimal("None") raises InvalidOperation
price_as_decimal(price_per_liter) ==
    IF price_per_liter = NullPrice
    THEN [raised |-> "InvalidOperation", value |-> 0]
    ELSE [raised |-> None, value |-> price_per_liter]

GenerationPaths ==
    { "generate_bill_for_user", "recalculate_bill", "generate_bill", "generate_all_bills" }

\* the unit price each generation path computes from the User it loaded
unit_price(path, price_per_liter) ==
    IF path = "generate_bill_for_user" THEN price_or_zero(price_per_liter)
    ELSE price_as_decimal(price_per_liter)

\* the total_amount a path computes for total_liters, or the exception it raises
CalcGenerate(path, price_per_liter, total_liters) ==
    /\ LET up == unit_price(path, price_per_liter)
           amount == IF up.raised # None THEN 0
                     ELSE IF path = "generate_bill_for_user"
                          THEN calculate_bill_amount(total_liters, up.value)
                          ELSE calculate_amount(total_liters, up.value)
       IN  calc' = [op |-> "generate", args |-> << path, price_per_liter, total_liters >>,
                    out |-> [raised |-> up.raised, value |-> amount, value2 |-> 0]]
    /\ CalcFrame

\* settings.LOCK_DAYS
LOCK_DAYS == 7

\* date.today() as a day number, and the usage dates around it
Todays == {20, 21}
DatesAround(today) == (today - 10) .. (today + 1)

\* deps.is_date_locked
is_date_locked(consumption_date, today) ==
    LET lock_threshold == today - 7
    IN  consumption_date <= lock_threshold

\* LockService.get_lock_date, admin.get_lock_date
get_lock_date(today) == today - LOCK_DAYS

\* LockService.is_date_locked, as upsert_consumption calls it
LockService_is_date_locked(target_date, today) == target_date < get_lock_date(today)

\* the test of upload_consumption and of save_daily_entry
EndpointDateLocked(endpoint, d, today) ==
    IF endpoint = "upsert_consumption" THEN LockService_is_date_locked(d, today)
    ELSE d < get_lock_date(today)

LockEndpoints == { "upsert_consumption", "upload_consumption", "save_daily_entry" }

BoolBit(b) == IF b THEN 1 ELSE 0

\* is_date_locked(d) and the endpoint's own test of d, both on the same day
CalcDateLocked(endpoint, d, today) ==
    /\ calc' = [op |-> "is_date_locked", args |-> << endpoint, d, today >>,
                out |-> [raised |-> None, value |-> BoolBit(is_date_locked(d, today)),
                         value2 |-> BoolBit(EndpointDateLocked(endpoint, d, today))]]
    /\ CalcFrame

NextCalc ==
    \/ \E q \in CalcQuantities, p \in CalcPrices : CalcAmount(q, p)
    \/ \E a \in MoneyAmounts, k \in Scalars : CalcMul(a, k)
    \/ \E path \in GenerationPaths, p \in {NullPrice, 0, 250}, l \in {0, 2500} :
          CalcGenerate(path, p, l)
    \/ \E e \in LockEndpoints, today \in Todays : \E d \in DatesAround(today) :
          CalcDateLocked(e, d, today)

SpecCalc == InitConfigured /\ [][NextCalc]_vars

IsHalfEvenOf(r, n, unit) ==
    /\ 2 * (r * unit - n) <= unit
    /\ 2 * (n - r * unit) <= unit
    /\ (2 * (r * unit - n) = unit \/ 2 * (n - r * unit) = unit) => r % 2 = 0

\* C26: calculate_amount and calculate_bill_amount return the same amount, the product
\* of the 3-decimal operands rounded half-to-even to 2 decimals: 0.1 x 0.25 = 0.02,
\* 0.1 x 0.35 = 0.04, 0.1 x 0.3 = 0.03.
C26_AmountsAgreeHalfEven ==
    calc.op = "amount"
    => /\ calc.out.value = calc.out.value2
       /\ IsHalfEvenOf(calc.out.value, calc.args[1] * calc.args[2], 10000)
       /\ calc.args = << 100, 250 >> => calc.out.value = 2
       /\ calc.args = << 100, 350 >> => calc.out.value = 4
       /\ calc.args = << 100, 300 >> => calc.out.value = 3

\* the tie 0.1 x 0.25 = 0.025 was rounded down to the even 0.02 by both functions
C26_Witness ==
    /\ calc.op = "amount"
    /\ calc.args = << 100, 250 >>
    /\ calc.out.value = 2 /\ calc.out.value2 = 2

\* C28: a date is locked exactly when it is 7 or more days before today, and each
\* endpoint's test gives the answer of is_date_locked.
C28_OneLockBoundary ==
    calc.op = "is_date_locked"
    => /\ calc.out.value = calc.out.value2
       /\ calc.out.value2 = BoolBit(calc.args[3] - calc.args[2] >= 7)

\* C29: Money times a negative scalar raises InvalidOperation; times a non-negative
\* scalar it is the product rounded half-to-even to 2 decimals.
C29_NegativeScalarInvalidOperation ==
    calc.op = "Money.__mul__"
    => IF calc.args[2] < 0
       THEN calc.out.raised = "InvalidOperation"
       ELSE /\ calc.out.raised = None
            /\ IsHalfEvenOf(calc.out.value, calc.args[1] * calc.args[2], 1000)

(* ------------------------- batch generation --------------------------- *)
BatchFrame == UNCHANGED << inputVars, payments, webhook_events, rowLock, redisLock, secret,
                           gen, svc, wh, locks, calc, attempts, locked, auth >>

BatchKinds == {"service", "endpoint"}

\* the period's usage and the unit price of a customer
UsageOf(user) == IF user = TheUser THEN SumUsage(BillMonth) ELSE 0
PriceOf(user) == IF user = TheUser THEN price ELSE InitialPrice

\* POST /bills/generate/{user_id}/{month} by another admin for a customer without a
\* bill: the select, the insert and the commit. It waits while an uncommitted row of
\* the pair holds the unique index entry.
generate_bill(user) ==
    /\ BillsFor(user, BillMonth) = {}
    /\ \A b \in batch.pending : b.user_id # user
    /\ bills' = bills \cup
                  { NewBill(nextBillId, user, BillMonth, UsageOf(user),
                            calculate_amount(UsageOf(user), PriceOf(user)),
                            usageEpoch, "generate_bill") }
    /\ nextBillId' = nextBillId + 1
    /\ UNCHANGED batch
    /\ BatchFrame

\* select(User).where(role == "USER", is_active); the endpoint also fetches the
\* period's consumption of all users into consumption_map
BatchStart(kind) ==
    /\ batch.pc = "idle"
    /\ batch' = [IdleBatch EXCEPT !.pc = "select", !.kind = kind, !.i = 1,
                                  !.consumption_map = SumUsage(BillMonth),
                                  !.uepoch = usageEpoch]
    /\ UNCHANGED << bills, nextBillId >>
    /\ BatchFrame

\* the loop moves to the next user, or leaves the loop
BatchAdvance(b) ==
    IF b.i < Len(Users) THEN [b EXCEPT !.pc = "select", !.i = b.i + 1]
    ELSE IF b.kind = "endpoint" THEN [b EXCEPT !.pc = "commit"]
    ELSE [b EXCEPT !.pc = "done", !.outcome = "returned"]

\* per user: the totals and the select of the pair's bill; a PAID bill is skipped
BatchSelect ==
    /\ batch.pc = "select"
    /\ LET user == Users[batch.i]
           seen == FirstBill(user, BillMonth)
           liters == IF batch.kind = "service" THEN UsageOf(user)
                     ELSE IF user = TheUser THEN batch.consumption_map ELSE 0
           amount == IF batch.kind = "service"
                     THEN calculate_bill_amount(liters, PriceOf(user))
                     ELSE calculate_amount(liters, PriceOf(user))
       IN  IF seen # NoBill /\ seen.status = "PAID"
           THEN batch' = BatchAdvance(batch)
           ELSE batch' = [batch EXCEPT !.pc = "write", !.seen = seen,
                                       !.total_liters = liters, !.total_amount = amount,
                                       !.uepoch = IF batch.kind = "service"
                                                  THEN usageEpoch ELSE batch.uepoch]
    /\ UNCHANGED << bills, nextBillId >>
    /\ BatchFrame

\* per user: the insert or update. The service commits it and catches what it raises;
\* the endpoint flushes it into its one transaction, and what the flush raises ends
\* the request, whose session is closed without a commit.
BatchWrite ==
    /\ batch.pc = "write"
    /\ LET user == Users[batch.i]
           seen == batch.seen
           row == BillById(seen.id)
           new == IF seen = NoBill
                  THEN NewBill(nextBillId, user, BillMonth, batch.total_liters,
                               batch.total_amount, batch.uepoch, "batch")
                  ELSE IF batch.kind = "service"
                       THEN UpdateValues(row, seen, batch.total_liters,
                                         batch.total_amount, batch.uepoch)
                       ELSE OrmTotals(row, seen, batch.total_liters,
                                      batch.total_amount, batch.uepoch)
           ok == IF seen = NoBill THEN uix_user_month_bill(user, BillMonth)
                 ELSE batch.kind = "endpoint" \/ VersionMatches(row, seen)
       IN  /\ nextBillId' = IF ok /\ seen = NoBill THEN nextBillId + 1 ELSE nextBillId
           /\ IF batch.kind = "service"
              THEN /\ bills' = IF ok THEN (bills \ {row}) \cup {new} ELSE bills
                   /\ batch' = BatchAdvance(
                                 IF ok THEN [batch EXCEPT !.done = @ \cup {user}]
                                 ELSE [batch EXCEPT !.errors = @ \cup {user}])
              ELSE /\ bills' = bills
                   /\ batch' = IF ok
                               THEN BatchAdvance([batch EXCEPT !.done = @ \cup {user},
                                                               !.pending = @ \cup {new}])
                               ELSE [batch EXCEPT !.pc = "done", !.pending = {},
                                                  !.outcome = "aborted"]
    /\ BatchFrame

\* await db.commit() after the loop: every flushed row becomes visible
BatchCommit ==
    /\ batch.pc = "commit"
    /\ bills' = { b \in bills : \A p \in batch.pending : p.id # b.id } \cup batch.pending
    /\ batch' = [batch EXCEPT !.pc = "done", !.pending = {}, !.outcome = "queued"]
    /\ UNCHANGED nextBillId
    /\ BatchFrame

NextBatch ==
    \/ \E kind \in BatchKinds : BatchStart(kind)
    \/ BatchSelect
    \/ BatchWrite
    \/ BatchCommit
    \/ \E u \in {Users[i] : i \in 1..Len(Users)} : generate_bill(u)
    \/ \E d \in UsageDates, q \in Quantities : EditUsage(d, q)
    \/ \E p \in Prices : ChangePrice(p)

SpecBatch == InitConfigured /\ [][NextBatch]_vars

\* C21: a finished batch run was not aborted, handled every customer, and every
\* customer whose bill it generated has that bill committed.
C21_BatchIsolatesFailures ==
    batch.pc = "done"
    => /\ batch.outcome # "aborted"
       /\ \A i \in 1..Len(Users) :
             \/ Users[i] \in batch.done \cup batch.errors
             \/ \E b \in BillsFor(Users[i], BillMonth) : b.status = "PAID"
       /\ \A u \in batch.done : BillsFor(u, BillMonth) # {}

(* --------------------- redelivery by the provider --------------------- *)
\* the provider sends the same event again after a server-error response
WhRedeliver(h) ==
    /\ wh[h].pc = "done"
    /\ wh[h].resp = "500"
    /\ attempts[h] < MaxRetries
    /\ wh' = [wh EXCEPT ![h] = WhAccept("good", "absent", wh[h].event_type,
                                         wh[h].payment_id, 1)]
    /\ attempts' = [attempts EXCEPT ![h] = @ + 1]
    /\ UNCHANGED << inputVars, dbVars, rowLock, redisLock, secret, gen, svc, batch, locks,
                    calc, locked, auth >>

\* captured payments for the bill, their failures and their redeliveries
NextRetry ==
    \/ SvcRead("generate_bill")
    \/ SvcWrite
    \/ \E h \in Handlers, pid \in PayIds :
          WhReceive(h, "good", "absent", "payment.captured", pid, 1)
    \/ \E h \in Handlers : WhFlushEvent(h)
    \/ \E h \in Handlers : WhSelectForUpdate(h)
    \/ \E h \in Handlers : WhCommit(h)
    \/ \E h \in Handlers : WhFail(h)
    \/ \E h \in Handlers : WhRedeliver(h)

SpecRetry == InitConfigured /\ [][NextRetry]_vars

\* the step is a redelivery to handler h
Redelivered(h) == attempts'[h] = attempts[h] + 1

Now == 1000

\* X-Razorpay-Timestamp: absent, an integer of seconds, text that int() refuses, or
\* an integer beyond the platform's time_t
TimestampHeaders ==
    { [kind |-> "absent", value |-> 0], [kind |-> "text", value |-> 0],
      [kind |-> "huge", value |-> 0] }
    \cup { [kind |-> "int", value |-> v] : v \in {699, 700, 999, 1000, 1300, 1301} }

\* abs((now - webhook_time).total_seconds())
Skew(header, now) ==
    IF now >= header.value THEN now - header.value ELSE header.value - now

\* step 4: int(), datetime.fromtimestamp, skew > 300; ValueError and TypeError are
\* answered 400, the OverflowError of fromtimestamp is not caught
timestamp_check(header, now) ==
    IF header.kind = "absent" THEN "pass"
    ELSE IF header.kind = "text" THEN "400"
    ELSE IF header.kind = "huge" THEN "500"
    ELSE IF Skew(header, now) > 300 THEN "400"
    ELSE "pass"

TsKindOf(header, now) ==
    IF header.kind = "absent" THEN "absent"
    ELSE IF timestamp_check(header, now) = "pass" THEN "fresh"
    ELSE "skewed"

\* steps 1-9 of one request, and how it stands after them
CalcVerify(sig, header, etype) ==
    /\ LET r == WhAccept(sig, TsKindOf(header, Now), etype, "pay_1", 1)
           resp == IF secret /\ sig = "good" /\ timestamp_check(header, Now) = "500"
                   THEN "500" ELSE r.resp
       IN  calc' = [op |-> "payment_webhook",
                    args |-> << sig, header.kind, header.value, etype >>,
                    out |-> [raised |-> None, resp |-> resp, pc |-> r.pc]]
    /\ CalcFrame

NextVerify ==
    \E sig \in SigKinds, header \in TimestampHeaders, etype \in EventTypes :
        CalcVerify(sig, header, etype)

SpecVerify == Init /\ [][NextVerify]_vars

\* the request of calc carries an integer timestamp more than 300 seconds from now
TooOld == calc.args[2] = "huge"
          \/ (calc.args[2] = "int"
              /\ (calc.args[3] > Now + 300 \/ calc.args[3] < Now - 300))

\* C33: a request whose timestamp header is more than 300 seconds from now is answered
\* 400 and goes no further, whatever its signature; a timestamp within 300 seconds
\* or no header does not get a validly signed request rejected.
C33_SkewedTimestampRejected ==
    calc.op = "payment_webhook"
    => /\ TooOld => (calc.out.resp = "400" /\ calc.out.pc = "done")
       /\ (~TooOld /\ calc.args[2] \in {"absent", "int"} /\ calc.args[1] = "good")
             => calc.out.resp # "400"

(* ------------------- generation calls run to their end ---------------- *)
\* the steps of one generate_bill_for_user call
GenStep(w) ==
    \/ GenLoadUser(w)
    \/ GenAggregate(w)
    \/ GenAcquireLock(w)
    \/ GenGate(w)
    \/ GenReadBill(w)
    \/ GenWrite(w)

\* two generation calls for the same pair, usage edits and the lock's expiry
NextGate ==
    \/ \E d \in UsageDates, q \in Quantities : EditUsage(d, q)
    \/ LockExpire
    \/ \E w \in Workers : GenLoadUser(w)
    \/ \E w \in Workers : GenAggregate(w)
    \/ \E w \in Workers : GenAcquireLock(w)
    \/ \E w \in Workers : GenGate(w)
    \/ \E w \in Workers : GenReadBill(w)
    \/ \E w \in Workers : GenWrite(w)

\* a call that has a step to take takes it
SpecGate ==
    InitConfigured /\ [][NextGate]_vars /\ \A w \in Workers : WF_vars(GenStep(w))

\* C34: a call that did not get the lock re-reads the bill once: if one exists it
\* returns that bill and writes nothing, otherwise it goes on to the upsert; it never
\* comes back to the wait, and it reaches its end.
C34_WaitsOnceThenFallsBack ==
    /\ [][\A w \in Workers :
            (gen[w].pc = "gate" /\ gen'[w] # gen[w])
            => IF FirstBill(TheUser, BillMonth) # NoBill
               THEN /\ gen'[w].pc = "done"
                    /\ gen'[w].result = FirstBill(TheUser, BillMonth)
                    /\ bills' = bills
               ELSE gen'[w].pc = "upsert"]_vars
    /\ [][\A w \in Workers :
            gen[w].pc \in {"upsert", "write", "done"} => gen'[w].pc # "gate"]_vars
    /\ \A w \in Workers : (gen[w].pc = "gate") ~> (gen[w].pc = "done")

\* a call was refused the lock another call holds and returned the bill that call made
C34_Witness ==
    \E w \in Workers : \E v \in Workers \ {w} :
        /\ gen[w].pc = "done" /\ gen[w].outcome = "existing" /\ ~gen[w].lock_acquired
        /\ gen[v].lock_acquired /\ redisLock = LockValue(v)
        /\ gen[w].result \in bills /\ gen[w].result.by = "gen"

\* C35: a call that acquired the lock and has returned no longer has its token stored
\* under the key, so the next call for the pair can acquire at once.
C35_LockReleasedOnReturn ==
    \A w \in Workers :
        (gen[w].pc = "done" /\ gen[w].lock_acquired) => redisLock # LockValue(w)

\* C36: when the generate-all endpoint has committed its run, every unpaid bill of
\* the month is finalized (is_locked), and no step ever takes is_locked back.
C36_GenerateAllFinalizes ==
    [][/\ (batch.kind = "endpoint" /\ batch.pc = "commit" /\ batch'.pc = "done")
          => \A b \in bills' : (b.month = BillMonth /\ b.status = "UNPAID") => b.is_locked
       /\ \A b \in bills : b.is_locked => \A c \in bills' : c.id = b.id => c.is_locked]_vars

(* --------------------- explicitly locked usage rows ------------------- *)
UsageFrame == UNCHANGED << price, priceEpoch, dbVars, rowLock, redisLock, secret, svc, wh,
                           batch, locks, calc, attempts, auth >>

\* POST /consumption/lock for the period: every row of the period gets locked = True
lock_consumption_period(month) ==
    /\ LET range == calculate_month_range(month)
           rows == { d \in UsageDates : /\ consumption[d] # 0
                                        /\ DateLE(range[1], d) /\ DateLE(d, range[2]) }
       IN  /\ rows \ locked # {}
           /\ locked' = locked \cup rows
    /\ UNCHANGED << consumption, usageEpoch, gen >>
    /\ UsageFrame

\* quantities of an uploaded file's rows
UploadQuantities == {1000, 1500, 3000}

\* upload_consumption, one row of the file: an existing row is overwritten unless it
\* is locked, a missing one is inserted
upload_consumption(d, q) ==
    /\ usageEpoch + priceEpoch < MaxEdits
    /\ IF consumption[d] # 0 /\ d \in locked
       THEN UNCHANGED << consumption, usageEpoch >>
       ELSE /\ consumption' = [consumption EXCEPT ![d] = q]
            /\ usageEpoch' = usageEpoch + 1
    /\ UNCHANGED << locked, gen >>
    /\ UsageFrame

\* the three edit operations and the lock-period operation
NextUsage ==
    \/ \E d \in UsageDates, q \in Quantities : EditUsage(d, q)
    \/ \E d \in UsageDates, q \in UploadQuantities : upload_consumption(d, q)
    \/ \E w \in Workers, d \in UsageDates, q \in EntryQuantities : save_daily_entry(w, d, q)
    \/ lock_consumption_period(BillMonth)

SpecUsage == InitConfigured /\ [][NextUsage]_vars

\* C37: no step changes the quantity of a usage row that is explicitly locked.
C37_LockedQuantityFrozen ==
    [][\A d \in locked : consumption'[d] = consumption[d]]_vars

(* ------------------------------ login lockout -------------------------- *)
MAX_LOGIN_ATTEMPTS == 5

\* what the login form can carry for an account: the right password of an active
\* user, a wrong password (or no such user), the right password of an inactive user
Credentials == {"correct", "wrong", "inactive"}

AuthFrame ==
    UNCHANGED << consumption, price, usageEpoch, priceEpoch, bills, nextBillId,
                 payments, webhook_events, rowLock, redisLock, secret, gen, svc, wh,
                 batch, locks, calc, attempts, locked >>

\* check_account_locked: the counter of the key has reached the limit
check_account_locked(n) == n >= MAX_LOGIN_ATTEMPTS

\* record_failed_attempt: INCR of the key (and EXPIRE, which restarts its lifetime)
record_failed_attempt(n) == n + 1

\* clear_login_attempts: DEL of the key
clear_login_attempts(n) == 0

\* step 1 of login_access_token: the Redis client the rest of the handler uses.
\* get_redis, the lookup and the raise of the 429 all sit inside one try whose
\* handler is "except Exception", and HTTPException is an Exception: whatever is
\* raised there, the lockout included, is logged and leaves redis = None.
RedisAfterLockoutCheck(redis_up, n) ==
    IF ~redis_up THEN FALSE
    ELSE IF check_account_locked(n) THEN FALSE
    ELSE TRUE

\* login_access_token: lockout check, credential check, counting of the failure or
\* clearing of the counter, and the status of the answer
login_access_token(email, credentials, redis_up) ==
    LET n     == auth.login_attempts[email]
        redis == RedisAfterLockoutCheck(redis_up, n)
        after == IF ~redis THEN n
                 ELSE IF credentials = "wrong" THEN record_failed_attempt(n)
                 ELSE IF credentials = "inactive" THEN n
                 ELSE clear_login_attempts(n)
        resp  == IF credentials = "correct" THEN "200" ELSE "401"
    IN /\ auth' = [login_attempts |-> [auth.login_attempts EXCEPT ![email] = after],
                   email |-> email, credentials |-> credentials,
                   redis_up |-> redis_up, seen |-> n, resp |-> resp]
       /\ AuthFrame

\* the key of an account outlives LOCKOUT_DURATION_SECONDS without a new failure
LoginKeyExpires(email) ==
    /\ auth.login_attempts[email] > 0
    /\ auth' = [auth EXCEPT !.login_attempts[email] = 0]
    /\ AuthFrame

NextLogin ==
    \/ \E e \in Emails, c \in Credentials, up \in BOOLEAN : login_access_token(e, c, up)
    \/ \E e \in Emails : LoginKeyExpires(e)

SpecLogin == Init /\ [][NextLogin]_vars

\* C38: with Redis reachable, a login for an email whose counter has reached 5 is
\* answered 429 whatever the password, and a login with the right password below
\* the limit is answered 200 and leaves the counter at zero.
C38_LockedOutLoginRejected ==
    /\ (auth.resp # None /\ auth.redis_up /\ auth.seen >= MAX_LOGIN_ATTEMPTS)
          => auth.resp = "429"
    /\ (auth.resp # None /\ auth.redis_up /\ auth.seen < MAX_LOGIN_ATTEMPTS
          /\ auth.credentials = "correct")
          => (auth.resp = "200" /\ auth.login_attempts[auth.email] = 0)

====
